---- MODULE Spec2Model ----
(***************************************************************************)
(* churn: count how many distinct versions exist of each file of a git    *)
(* repository (src/main.rs).                                               *)
(*                                                                         *)
(* A string is a sequence of bytes, an Oid is an opaque model value, a     *)
(* git tree is the sequence of its entries in the order tree.iter() yields *)
(* them.  HashMap iteration order is arbitrary: get_all_files takes the    *)
(* order as a parameter and the report action draws it from all orders.    *)
(***************************************************************************)
EXTENDS Integers, Sequences, FiniteSets, TLC

VARIABLES
    walk,       \* the root tree ids of the commits the revwalk will yield
    n,          \* run: commits folded so far
    pc,         \* run: "setup", "walk", "done" (Ok) or "failed" (Err)
    root_dir,   \* run: the root DirData
    dots,       \* number of progress dots printed
    all_files,  \* run: the vector after get_all_files and sort
    printed,    \* the "filename, count" rows printed
    log         \* what the run did: commits begun, entries visited, resolve calls

vars == <<walk, n, pc, root_dir, dots, all_files, printed, log>>

----------------------------------------------------------------------------
(* Bounds *)

\* longest commit walk
MaxCommits == 3

----------------------------------------------------------------------------
(* Strings *)

\* the byte '/' that join puts between base and name
SLASH == 47

\* The entry names of the repository.  A git tree entry name is never empty
\* and holds no '/'; entry.name().unwrap() is given valid UTF-8 only.
Name_a == <<97>>                \* "a"
Name_b == <<98>>                \* "b"
Name_a_b == <<97, 46, 98>>      \* "a.b"

Names == {Name_a, Name_b, Name_a_b}

\* str::cmp: byte-wise lexicographic order
RECURSIVE StrLess(_, _)
StrLess(s, t) ==
    IF t = <<>> THEN FALSE
    ELSE IF s = <<>> THEN TRUE
    ELSE IF Head(s) # Head(t) THEN Head(s) < Head(t)
    ELSE StrLess(Tail(s), Tail(t))

\* Ord for (String, usize): by the string, then by the count
RowLess(r1, r2) ==
    \/ StrLess(r1[1], r2[1])
    \/ r1[1] = r2[1] /\ r1[2] < r2[2]

\* the mutant of join: the separator is put in also after an empty base
join_always_slash(base, name) == base \o <<SLASH>> \o name

\* join(base, name)
join(base, name) ==
    IF base = <<>> THEN name ELSE base \o <<SLASH>> \o name

----------------------------------------------------------------------------
(* The object store: a content-addressed repository *)

Entry(name, id, kind) == [name |-> name, id |-> id, kind |-> kind]

\* the trees of the repository, by id; entries in git's order.  The id of a
\* tree stands for its content: r1 and r2 change a/b, r3 has a as a file
\* and a submodule b, r4 nests a/a/ and has t1 at two paths and a submodule
\* a/a.b between other entries, r5 has a/b as a directory.
Objects ==
    [ r1 |-> << Entry(Name_a, "t1", "tree") >>,
      r2 |-> << Entry(Name_a, "t2", "tree") >>,
      r3 |-> << Entry(Name_a, "x", "blob"),
                Entry(Name_a_b, "y", "blob"),
                Entry(Name_b, "s", "commit") >>,
      r4 |-> << Entry(Name_a, "t3", "tree"),
                Entry(Name_b, "t1", "tree") >>,
      r5 |-> << Entry(Name_a, "t4", "tree"),
                Entry(Name_a_b, "z", "blob") >>,
      t1 |-> << Entry(Name_b, "x", "blob") >>,
      t2 |-> << Entry(Name_b, "y", "blob") >>,
      t3 |-> << Entry(Name_a, "t1", "tree"),
                Entry(Name_a_b, "s", "commit"),
                Entry(Name_b, "z", "blob") >>,
      t4 |-> << Entry(Name_b, "t2", "tree") >> ]

\* the root trees of the commits of the repository
RootTrees == {"r1", "r2", "r3", "r4", "r5"}

\* the trees that are directory entries
SubTrees == {"t1", "t2", "t3", "t4"}

\* the sets of tree ids whose resolution may fail during one fold
BadSets == {{}} \cup {{t} : t \in SubTrees}

RECURSIVE SeqsUpTo(_, _)
SeqsUpTo(S, k) ==
    IF k = 0 THEN {<<>>}
    ELSE LET shorter == SeqsUpTo(S, k - 1)
         IN  shorter \cup {Append(s, x) : s \in shorter, x \in S}

----------------------------------------------------------------------------
(* DirData *)

\* the empty map
EmptyMap == [k \in {} |-> {}]

\* DirData::new()
DirDataNew == [hashes |-> {}, files |-> EmptyMap, dirs |-> EmptyMap]

\* the mutant of get_mut_or_create_with: the entry is always replaced by f()
get_mut_or_create_with_reset(map, key, f) ==
    [k \in DOMAIN map \cup {key} |-> IF k = key THEN f ELSE map[k]]

\* get_mut_or_create_with(map, key, f): the map after the call, in which
\* map[key] exists; the reference returned is to map[key]
get_mut_or_create_with(map, key, f) ==
    IF key \in DOMAIN map THEN map
    ELSE [k \in DOMAIN map \cup {key} |-> IF k = key THEN f ELSE map[k]]

\* map[key] = v
Put(map, key, v) ==
    [k \in DOMAIN map \cup {key} |-> IF k = key THEN v ELSE map[k]]

\* the mutant of HashSetInsert: the set keeps the last value only
HashSetInsert_overwrite(s, x) == [set |-> {x}, new |-> x \notin s]

\* the mutant of HashSetInsert: insert always reports a new value
HashSetInsert_always_new(s, x) == [set |-> s \cup {x}, new |-> TRUE]

\* the mutant of HashSetInsert: the result of insert is negated
HashSetInsert_negated(s, x) == [set |-> s \cup {x}, new |-> x \in s]

\* the mutant of HashSetInsert: the value is looked up and not inserted
HashSetInsert_lookup_only(s, x) == [set |-> s, new |-> x \notin s]

\* HashSet::insert(x): the set after the call and the bool it returns
HashSetInsert(s, x) == [set |-> s \cup {x}, new |-> x \notin s]

\* the mutant of subdir: a directory takes the place of a file of its name
subdir_one_namespace(self, name) ==
    [self EXCEPT
        !.dirs = get_mut_or_create_with(self.dirs, name, DirDataNew),
        !.files = [k \in DOMAIN self.files \ {name} |-> self.files[k]]]

\* DirData::subdir(name): self after the call, in which dirs[name] exists
subdir(self, name) ==
    [self EXCEPT !.dirs = get_mut_or_create_with(self.dirs, name, DirDataNew)]

\* the mutant of Try: the error of the call is dropped and the loop goes on
Try_swallow(ok) == TRUE

\* try!(..): whether the call returned Ok, that is whether the function goes
\* on; on Err the function returns the error at once
Try(ok) == ok

\* the mutant of entry_kind: a submodule entry is taken for a file
entry_kind_gitlink_as_blob(entry) ==
    IF entry.kind = "commit" THEN "blob" ELSE entry.kind

\* entry.kind(): "tree" for Some(ObjectType::Tree), "blob" for
\* Some(ObjectType::Blob), anything else for the other kinds
entry_kind(entry) == entry.kind

\* one record of the log
Event(ev, path, name, id, ok) ==
    [ev |-> ev, path |-> path, name |-> name, id |-> id, ok |-> ok]

\* DirData::update_for_tree(repo, tree) on the node `self` that stands for the
\* directory `path` (the names from the root), for the entries not yet
\* visited; entry.to_object fails for the ids in `bad`.  The result is the
\* node after the call, whether the call returned Ok(()), and the entries
\* visited and resolve calls made, in order.
RECURSIVE update_for_tree(_, _, _, _)
update_for_tree(self, path, entries, bad) ==
    IF entries = <<>> THEN [node |-> self, ok |-> TRUE, log |-> <<>>]
    ELSE
    LET entry == Head(entries)
        name == entry.name
        sha == entry.id
        visit == Event("entry", path, name, sha, TRUE)
        resolve(ok) == Event("resolve", Append(path, name), name, sha, ok)
        \* the next iteration of the for loop
        Continue(node, lg) ==
            LET rest == update_for_tree(node, path, Tail(entries), bad)
            IN  [node |-> rest.node, ok |-> rest.ok, log |-> lg \o rest.log]
    IN
    CASE entry_kind(entry) = "tree" ->
            LET self1 == subdir(self, name)
                ins == HashSetInsert(self1.dirs[name].hashes, sha)
                sub1 == [self1.dirs[name] EXCEPT !.hashes = ins.set]
                self2 == [self1 EXCEPT !.dirs[name] = sub1]
            IN  IF ins.new
                THEN IF sha \in bad
                     THEN \* try!(entry.to_object(repo)) returns the error
                          [node |-> self2, ok |-> FALSE,
                           log |-> <<visit, resolve(FALSE)>>]
                     ELSE LET r == update_for_tree(sub1, Append(path, name),
                                                   Objects[sha], bad)
                              self3 == [self2 EXCEPT !.dirs[name] = r.node]
                              lg == <<visit, resolve(TRUE)>> \o r.log
                          IN  IF Try(r.ok)
                              THEN Continue(self3, lg)
                              ELSE \* try!(subdir.update_for_tree(..))
                                   [node |-> self3, ok |-> FALSE, log |-> lg]
                ELSE Continue(self2, <<visit>>)
      [] entry_kind(entry) = "blob" ->
            LET files1 == get_mut_or_create_with(self.files, name, {})
                ins == HashSetInsert(files1[name], sha)
            IN  Continue([self EXCEPT !.files = Put(files1, name, ins.set)],
                         <<visit>>)
      [] OTHER -> Continue(self, <<visit>>)

\* the keys of a HashMap in the order an iteration yields them: the order
\* `ord` of all names, restricted to the keys
Iter(map, ord) == SelectSeq(ord, LAMBDA k : k \in DOMAIN map)

\* the orders an iteration over a HashMap may take
Orders == {o \in [1..Cardinality(Names) -> Names] :
              \A i, j \in DOMAIN o : o[i] = o[j] => i = j}

\* the mutant of get_all_files: a row is pushed for each subdirectory too,
\* with the number of tree ids seen for it
RECURSIVE get_all_files_with_dirs(_, _, _, _)
get_all_files_with_dirs(self, path, ordF, ordD) ==
    LET fs == Iter(self.files, ordF)
        ds == Iter(self.dirs, ordD)
        rows == [i \in 1..Len(fs) |->
                    <<join(path, fs[i]), Cardinality(self.files[fs[i]])>>]
        RECURSIVE below(_)
        below(i) ==
            IF i > Len(ds) THEN <<>>
            ELSE <<<<join(path, ds[i]), Cardinality(self.dirs[ds[i]].hashes)>>>>
                    \o get_all_files_with_dirs(self.dirs[ds[i]], join(path, ds[i]),
                                               ordF, ordD)
                    \o below(i + 1)
    IN  rows \o below(1)

\* DirData::get_all_files(path, out): the rows pushed to out, when the files
\* of each node are iterated in order ordF and its dirs in order ordD
RECURSIVE get_all_files(_, _, _, _)
get_all_files(self, path, ordF, ordD) ==
    LET fs == Iter(self.files, ordF)
        ds == Iter(self.dirs, ordD)
        rows == [i \in 1..Len(fs) |->
                    <<join(path, fs[i]), Cardinality(self.files[fs[i]])>>]
        RECURSIVE below(_)
        below(i) ==
            IF i > Len(ds) THEN <<>>
            ELSE get_all_files(self.dirs[ds[i]], join(path, ds[i]), ordF, ordD)
                    \o below(i + 1)
    IN  rows \o below(1)

\* s with row put before the first element that is not less than it
RECURSIVE InsertSorted(_, _)
InsertSorted(row, s) ==
    IF s = <<>> THEN <<row>>
    ELSE IF RowLess(Head(s), row) THEN <<Head(s)>> \o InsertSorted(row, Tail(s))
    ELSE <<row>> \o s

RECURSIVE SortRows(_)
SortRows(s) ==
    IF s = <<>> THEN <<>> ELSE InsertSorted(Head(s), SortRows(Tail(s)))

\* the mutant of sort: the vector is left as get_all_files filled it
sort_nothing(s) == s

\* all_files.sort()
sort(s) == SortRows(s)

\* the number of progress dots printed per this many commits
COMMITS_PER_DOT == 1000

----------------------------------------------------------------------------
(* run *)

TypeOK ==
    /\ walk \in SeqsUpTo(RootTrees, MaxCommits)
    /\ n \in 0..Len(walk)
    /\ pc \in {"setup", "walk", "done", "failed"}
    /\ dots \in Nat

Init ==
    /\ walk \in SeqsUpTo(RootTrees, MaxCommits)
    /\ n = 0
    /\ pc = "setup"
    /\ root_dir = DirDataNew
    /\ dots = 0
    /\ all_files = <<>>
    /\ printed = <<>>
    /\ log = <<>>

\* repo.revparse_single(spec) and revwalk.push(id) succeed
Setup ==
    /\ pc = "setup"
    /\ pc' = "walk"
    /\ UNCHANGED <<walk, n, root_dir, dots, all_files, printed, log>>

\* one of them fails: run returns the error
SetupFail ==
    /\ pc = "setup"
    /\ pc' = "failed"
    /\ log' = Append(log, Event("setup_failed", <<>>, <<>>, "", FALSE))
    /\ UNCHANGED <<walk, n, root_dir, dots, all_files, printed>>

\* the revwalk yields an error, or find_commit or commit.tree() fails
LookupFail ==
    /\ pc = "walk"
    /\ pc' = "failed"
    /\ log' = Append(log, Event("lookup_failed", <<>>, <<>>, "", FALSE))
    /\ UNCHANGED <<walk, n, root_dir, dots, all_files, printed>>

\* the try! of run's loop: the mutant that goes on after a failed fold
AfterFold_swallow(ok) == "walk"

\* the try! around root_dir.update_for_tree in run's loop
AfterFold(ok) == IF ok THEN "walk" ELSE "failed"

\* the mutant of FoldCommit: the root is gated by its seen set like a
\* subdirectory, a root tree seen before is not iterated again
FoldCommit_root_gated ==
    /\ pc = "walk"
    /\ n < Len(walk)
    /\ \E bad \in BadSets :
         LET tree == walk[n + 1]
             ins == HashSetInsert(root_dir.hashes, tree)
             gated == [root_dir EXCEPT !.hashes = ins.set]
             r == IF ins.new
                  THEN update_for_tree(gated, <<>>, Objects[tree], bad)
                  ELSE [node |-> gated, ok |-> TRUE, log |-> <<>>]
         IN  /\ root_dir' = r.node
             /\ log' = log \o <<Event("commit", <<>>, <<>>, tree, r.ok)>> \o r.log
             /\ pc' = AfterFold(r.ok)
             /\ n' = IF r.ok THEN n + 1 ELSE n
             /\ dots' = dots
    /\ UNCHANGED <<walk, all_files, printed>>

\* one iteration of run's loop whose commit and tree are found
FoldCommit ==
    /\ pc = "walk"
    /\ n < Len(walk)
    /\ \E bad \in BadSets :
         LET tree == walk[n + 1]
             r == update_for_tree(root_dir, <<>>, Objects[tree], bad)
         IN  /\ root_dir' = r.node
             /\ log' = log \o <<Event("commit", <<>>, <<>>, tree, r.ok)>> \o r.log
             /\ pc' = AfterFold(r.ok)
             /\ n' = IF r.ok THEN n + 1 ELSE n
             /\ dots' = IF r.ok /\ (n + 1) % COMMITS_PER_DOT = 0
                        THEN dots + 1 ELSE dots
    /\ UNCHANGED <<walk, all_files, printed>>

\* the revwalk is exhausted: the report
Report ==
    /\ pc = "walk"
    /\ n = Len(walk)
    /\ \E ordF \in Orders, ordD \in Orders :
         all_files' = sort(get_all_files(root_dir, <<>>, ordF, ordD))
    /\ printed' = all_files'
    /\ pc' = "done"
    /\ UNCHANGED <<walk, n, root_dir, dots, log>>

Next ==
    \/ Setup
    \/ SetupFail
    \/ LookupFail
    \/ FoldCommit
    \/ Report

Spec == Init /\ [][Next]_vars

\* run's loop over the commits whose root trees are s, no call failing
RECURSIVE FoldSeq(_, _)
FoldSeq(node, s) ==
    IF s = <<>> THEN node
    ELSE FoldSeq(update_for_tree(node, <<>>, Objects[Head(s)], {}).node, Tail(s))

----------------------------------------------------------------------------
(* What the repository holds, read off the object store *)

\* the blob entries of the full tree of `tree`: <<directory, name, blob id>>
RECURSIVE BlobsIn(_, _)
BlobsIn(tree, dir) ==
    LET es == Objects[tree]
    IN  UNION {
          IF es[i].kind = "blob" THEN {<<dir, es[i].name, es[i].id>>}
          ELSE IF es[i].kind = "tree"
               THEN BlobsIn(es[i].id, Append(dir, es[i].name))
          ELSE {} : i \in DOMAIN es }

\* the directory entries of the full tree of `tree`: <<path, tree id>>
RECURSIVE TreesIn(_, _)
TreesIn(tree, dir) ==
    LET es == Objects[tree]
    IN  UNION {
          IF es[i].kind = "tree"
          THEN {<<Append(dir, es[i].name), es[i].id>>}
                  \cup TreesIn(es[i].id, Append(dir, es[i].name))
          ELSE {} : i \in DOMAIN es }

\* the root trees folded so far
Folded == {walk[i] : i \in 1..n}

FoldedBlobs == UNION {BlobsIn(c, <<>>) : c \in Folded}
FoldedTrees == UNION {TreesIn(c, <<>>) : c \in Folded}

\* the names of a path joined by '/'
RECURSIVE PathStr(_)
PathStr(names) ==
    IF Len(names) = 1 THEN names[1]
    ELSE names[1] \o <<SLASH>> \o PathStr(Tail(names))

\* the blob ids the folded commits hold at the file `name` of directory `dir`
BlobIdsAt(dir, name) == {b[3] : b \in {x \in FoldedBlobs : x[1] = dir /\ x[2] = name}}

Range(s) == {s[i] : i \in DOMAIN s}

\* one iteration order
SomeOrder == CHOOSE o \in Orders : TRUE

\* no resolve call of the run has failed
NoResolveFailure == \A i \in DOMAIN log : log[i].ev = "resolve" => log[i].ok

\* the run has not failed
Running == pc \in {"walk", "done"}

----------------------------------------------------------------------------
(* C1 *)

\* C1: after any number of successfully folded commits, get_all_files
\* reports for each path exactly one row, whose count is the number of
\* distinct blob ids the folded commits hold at that path (not the number of
\* commits or occurrences), and reports no other path.
C1_DistinctContentCount ==
    Running =>
        LET rows == get_all_files(root_dir, <<>>, SomeOrder, SomeOrder)
            expected == {<<PathStr(Append(b[1], b[2])),
                           Cardinality(BlobIdsAt(b[1], b[2]))>> : b \in FoldedBlobs}
        IN  /\ Range(rows) = expected
            /\ Len(rows) = Cardinality(expected)

\* contents X, Y, X at a/b have been folded and a/b is reported with 2
C1_Witness ==
    /\ pc = "walk"
    /\ n = 3
    /\ walk = <<"r1", "r2", "r1">>
    /\ <<PathStr(<<Name_a, Name_b>>), 2>>
          \in Range(get_all_files(root_dir, <<>>, SomeOrder, SomeOrder))

----------------------------------------------------------------------------
(* C2 *)

\* the number of resolve calls made for tree id t at path p
ResolveCalls(p, t) ==
    Cardinality({i \in DOMAIN log :
                    log[i].ev = "resolve" /\ log[i].path = p /\ log[i].id = t})

\* C2: while no resolution has failed, every (path, tree id) that occurs as
\* a directory entry in a folded commit has been resolved exactly once,
\* however many folded commits present it, and nothing else is resolved.
C2_ResolveExactlyOnce ==
    NoResolveFailure =>
        /\ \A pt \in FoldedTrees : ResolveCalls(pt[1], pt[2]) = 1
        /\ \A i \in DOMAIN log :
              log[i].ev = "resolve" => <<log[i].path, log[i].id>> \in FoldedTrees

\* the subtrees of r4 come again with a later commit, and t1 also at another
\* path with r1
C2_Witness ==
    /\ pc = "walk"
    /\ n = 3
    /\ walk = <<"r4", "r1", "r4">>
    /\ NoResolveFailure
    /\ ResolveCalls(<<Name_a, Name_a>>, "t1") = 1

----------------------------------------------------------------------------
(* C3 *)

\* the report of a cache: the sorted rows
ReportOf(node) == sort(get_all_files(node, <<>>, SomeOrder, SomeOrder))

\* the permutations of 1..k
Perms(k) == {q \in [1..k -> 1..k] : \A i, j \in 1..k : q[i] = q[j] => i = j}

\* C3: the report of the commits folded so far is the report that folding
\* the same commits into a fresh root in any other order gives.
C3_OrderIndependent ==
    Running =>
        \A q \in Perms(n) :
            ReportOf(FoldSeq(DirDataNew, [i \in 1..n |-> walk[q[i]]]))
                = ReportOf(root_dir)

\* three different commits, one of which changes a file to a directory
C3_Witness ==
    /\ pc = "walk"
    /\ n = 3
    /\ walk = <<"r3", "r4", "r2">>
    /\ Len(ReportOf(root_dir)) >= 4

----------------------------------------------------------------------------
(* C4 *)

\* C4: a successful fold of a root tree that an earlier commit of the walk
\* already brought leaves the whole cache, and so the report, as it was.
C4_RootFoldIdempotent ==
    [][ (pc = "walk" /\ pc' = "walk" /\ n' = n + 1 /\ walk[n + 1] \in Folded)
            => /\ root_dir' = root_dir
               /\ ReportOf(root_dir') = ReportOf(root_dir) ]_vars

\* two consecutive commits with the same root tree, with nested directories,
\* have been folded
C4_Witness ==
    /\ pc = "walk"
    /\ n >= 2
    /\ walk[n] = "r4"
    /\ walk[n - 1] = "r4"
    /\ Len(ReportOf(root_dir)) >= 3

----------------------------------------------------------------------------
(* C5 *)

\* the files recorded in the cache below `node`: <<directory names, file name>>
RECURSIVE FilesOf(_, _)
FilesOf(node, dir) ==
    {<<dir, f>> : f \in DOMAIN node.files}
        \cup UNION {FilesOf(node.dirs[d], Append(dir, d)) : d \in DOMAIN node.dirs}

\* the number of rows of `rows` whose path is `path`
RowsWithPath(rows, path) == Cardinality({i \in DOMAIN rows : rows[i][1] = path})

\* C5: for every file recorded in the cache, whatever the iteration order of
\* files and of subdirectories, get_all_files with the empty prefix emits
\* exactly one row whose path is the file's directory names and its name
\* joined by '/', without a leading separator; so does the printed report.
C5_PathIsJoinedNames ==
    pc = "done" =>
        \A df \in FilesOf(root_dir, <<>>) :
            LET path == PathStr(Append(df[1], df[2]))
            IN  /\ \A ordF \in Orders, ordD \in Orders :
                      RowsWithPath(get_all_files(root_dir, <<>>, ordF, ordD), path) = 1
                /\ RowsWithPath(printed, path) = 1
                /\ Head(path) # SLASH

\* the report has been made of a cache with files at depth 0, 1 and 2
C5_Witness ==
    /\ pc = "done"
    /\ <<<<>>, Name_a>> \in FilesOf(root_dir, <<>>)
    /\ <<<<Name_a>>, Name_b>> \in FilesOf(root_dir, <<>>)
    /\ <<<<Name_a, Name_a>>, Name_b>> \in FilesOf(root_dir, <<>>)
    /\ RowsWithPath(printed, <<97, 47, 97, 47, 98>>) = 1

----------------------------------------------------------------------------
(* C6 *)

\* s is before t in byte-wise lexicographic order
LexBefore(s, t) ==
    \E k \in 1..(Len(t)) :
        /\ \A i \in 1..(k - 1) : i <= Len(s) /\ s[i] = t[i]
        /\ \/ k = Len(s) + 1
           \/ k <= Len(s) /\ s[k] < t[k]

\* C6: the rows printed are in ascending byte-wise lexicographic order of
\* their paths, and they are the rows that the walk gives in any iteration
\* order of the maps, sorted.
C6_ReportSortedAndDeterministic ==
    pc = "done" =>
        /\ \A i, j \in DOMAIN printed :
              i < j => LexBefore(printed[i][1], printed[j][1])
        /\ \A ordF \in Orders, ordD \in Orders :
              sort(get_all_files(root_dir, <<>>, ordF, ordD)) = printed

\* a report of four rows or more, which some iteration order walks in
\* another order than the printed one, and in which "a.b" comes before "a/b"
C6_Witness ==
    /\ pc = "done"
    /\ Len(printed) >= 4
    /\ \E ordF \in Orders, ordD \in Orders :
          get_all_files(root_dir, <<>>, ordF, ordD) # printed
    /\ \E i \in DOMAIN printed :
          /\ i < Len(printed)
          /\ printed[i][1] = Name_a_b
          /\ printed[i + 1][1] = PathStr(<<Name_a, Name_b>>)

----------------------------------------------------------------------------
(* C7 *)

\* everything recorded in the cache `old` is recorded in the cache `new`
RECURSIVE Contains(_, _)
Contains(new, old) ==
    /\ old.hashes \subseteq new.hashes
    /\ DOMAIN old.files \subseteq DOMAIN new.files
    /\ \A f \in DOMAIN old.files : old.files[f] \subseteq new.files[f]
    /\ DOMAIN old.dirs \subseteq DOMAIN new.dirs
    /\ \A d \in DOMAIN old.dirs : Contains(new.dirs[d], old.dirs[d])

\* the resolve calls of a log that failed
FailedResolves(l) == {i \in DOMAIN l : l[i].ev = "resolve" /\ ~l[i].ok}

\* the last commit a log begins
LastCommit(l) ==
    l[CHOOSE i \in DOMAIN l :
        /\ l[i].ev = "commit"
        /\ \A j \in DOMAIN l : l[j].ev = "commit" => j <= i]

\* C7: in a fold in which a resolve call fails, the failed call is the last
\* thing the fold does (no entry of any level is visited after it), the fold
\* returns the error, the commit is not counted, and everything that was in
\* the cache before the fold is in it afterwards.
C7_FailedFoldStopsAndKeeps ==
    [][ FailedResolves(log') # FailedResolves(log)
            => /\ log'[Len(log')].ev = "resolve"
               /\ ~log'[Len(log')].ok
               /\ Cardinality(FailedResolves(log')) = 1
               /\ ~LastCommit(log').ok
               /\ n' = n
               /\ Contains(root_dir', root_dir) ]_vars

\* after r3 and r5, the fold of r4 failed at depth 2, at a/a: the entry b of
\* a/ and the entry b of the root were not visited
C7_Witness ==
    /\ pc = "failed"
    /\ n = 2
    /\ walk = <<"r3", "r5", "r4">>
    /\ log[Len(log)] = Event("resolve", <<Name_a, Name_a>>, Name_a, "t1", FALSE)
    /\ Name_b \notin DOMAIN root_dir.dirs
    /\ root_dir.dirs[Name_a].files = EmptyMap
    /\ DOMAIN root_dir.files = {Name_a, Name_a_b}
    /\ root_dir.dirs[Name_a].hashes = {"t3", "t4"}

----------------------------------------------------------------------------
(* C8 *)

\* the failures of a log: of the setup, of the walker or a commit lookup, or
\* of a resolve call in a fold
Failures(l) ==
    {i \in DOMAIN l :
        \/ l[i].ev \in {"setup_failed", "lookup_failed"}
        \/ l[i].ev = "resolve" /\ ~l[i].ok}

\* C8: once anything has failed the run has returned the error: the failure
\* is the last thing the run did (no later commit is folded) and no row is
\* emitted; rows are emitted only by a run that folded every commit of the
\* walk without a failure.
C8_FailureEndsRunWithoutReport ==
    /\ Failures(log) # {}
          => /\ pc = "failed"
             /\ Failures(log) = {Len(log)}
             /\ all_files = <<>>
             /\ printed = <<>>
    /\ pc = "failed" => Failures(log) # {}
    /\ printed # <<>>
          => /\ pc = "done"
             /\ Failures(log) = {}
             /\ n = Len(walk)
             /\ Cardinality({i \in DOMAIN log : log[i].ev = "commit" /\ log[i].ok})
                    = Len(walk)

\* the fold of the second of three commits failed: the cache holds files,
\* the third commit is not folded and nothing is printed
C8_Witness ==
    /\ pc = "failed"
    /\ n = 1
    /\ Len(walk) = 3
    /\ FailedResolves(log) # {}
    /\ DOMAIN root_dir.files # {}
    /\ printed = <<>>

----------------------------------------------------------------------------
(* C9 *)

\* the nodes of the cache below `node`, `node` included
RECURSIVE NodesOf(_)
NodesOf(node) ==
    {node} \cup UNION {NodesOf(node.dirs[d]) : d \in DOMAIN node.dirs}

\* every entry of every tree in node.hashes has been folded into node
SeenIsFolded(node) ==
    \A t \in node.hashes :
        \A i \in DOMAIN Objects[t] :
            LET e == Objects[t][i]
            IN  /\ e.kind = "blob" =>
                      e.name \in DOMAIN node.files /\ e.id \in node.files[e.name]
                /\ e.kind = "tree" =>
                      e.name \in DOMAIN node.dirs /\ e.id \in node.dirs[e.name].hashes

\* C9 (as claimed): after a fold aborted by a resolution failure, every tree
\* id in a node's seen set has all its entries folded into the node, and
\* folding the same commit again without failure gives the cache of a run
\* without failure.
C9_AbortedFoldLeavesValidCache ==
    (pc = "failed" /\ FailedResolves(log) # {})
        => /\ \A node \in NodesOf(root_dir) : SeenIsFolded(node)
           /\ update_for_tree(root_dir, <<>>, Objects[walk[n + 1]], {}).node
                 = FoldSeq(DirDataNew, SubSeq(walk, 1, n + 1))

\* while nothing has failed, every seen tree id has all its entries folded
SeenIsFoldedWhileRunning ==
    Running => \A node \in NodesOf(root_dir) : SeenIsFolded(node)

----------------------------------------------------------------------------
(* C10 *)

\* the entries of all trees of the repository
AllEntries == UNION {Range(Objects[t]) : t \in DOMAIN Objects}

\* the node of the cache for the directory `dir`
RECURSIVE NodeAt(_, _)
NodeAt(node, dir) ==
    IF dir = <<>> THEN node ELSE NodeAt(node.dirs[Head(dir)], Tail(dir))

\* the tree ids the folded commits hold at the directory `path`
TreeIdsAt(path) == {pt[2] : pt \in {x \in FoldedTrees : x[1] = path}}

\* the <<directory, name>> at which the folded commits hold a file in one
\* commit and a directory in another
TypeChanges ==
    {<<b[1], b[2]>> : b \in {x \in FoldedBlobs : TreeIdsAt(Append(x[1], x[2])) # {}}}

\* C10: at every node of the cache, folding a directory entry leaves the
\* files map as it is and folding a file entry leaves the dirs map as it is;
\* where the folded commits hold name n at path p both as a file and as a
\* directory, the node of p holds files[n] with the blob ids and dirs[n] with
\* the tree ids, and the report has the row of p/n with the number of blob
\* ids and one row for each file recorded under p/n/.
C10_FileAndDirOfOneName ==
    /\ \A node \in NodesOf(root_dir), e \in AllEntries, bad \in BadSets :
          LET r == update_for_tree(node, <<>>, <<e>>, bad)
          IN  /\ e.kind = "tree" => r.node.files = node.files
              /\ e.kind = "blob" => r.node.dirs = node.dirs
    /\ Running =>
          \A dn \in TypeChanges :
              LET node == NodeAt(root_dir, dn[1])
                  name == dn[2]
                  path == Append(dn[1], name)
              IN  /\ name \in DOMAIN node.files
                  /\ node.files[name] = BlobIdsAt(dn[1], name)
                  /\ name \in DOMAIN node.dirs
                  /\ node.dirs[name].hashes = TreeIdsAt(path)
                  /\ pc = "done" =>
                        /\ <<PathStr(path), Cardinality(BlobIdsAt(dn[1], name))>>
                              \in Range(printed)
                        /\ \A df \in FilesOf(node.dirs[name], path) :
                              RowsWithPath(printed, PathStr(Append(df[1], df[2]))) = 1

\* the report of a walk in which a is a file and then a directory, and a/b
\* is a file and then a directory
C10_Witness ==
    /\ pc = "done"
    /\ walk = <<"r3", "r1", "r5">>
    /\ TypeChanges = {<<<<>>, Name_a>>, <<<<Name_a>>, Name_b>>}
    /\ <<Name_a, 1>> \in Range(printed)
    /\ <<PathStr(<<Name_a, Name_b>>), 1>> \in Range(printed)
    /\ <<PathStr(<<Name_a, Name_b, Name_b>>), 1>> \in Range(printed)

----------------------------------------------------------------------------
(* C11 *)

\* every row of the report `old` has a row of the same path in the report
\* `new`, with a count that is not less
CountsNotLess(new, old) ==
    \A i \in DOMAIN old :
        \E j \in DOMAIN new : new[j][1] = old[i][1] /\ new[j][2] >= old[i][2]

\* C11: the cache only grows.  Folding any one entry into any node of the
\* cache, the resolve failing or not, gives a node that contains the old
\* one; and over every step of the run, aborted folds included, the new
\* cache contains the old one (seen sets, version sets, file names and
\* subdirectory nodes) and no reported count decreases.
C11_CacheOnlyGrows ==
    /\ [](\A node \in NodesOf(root_dir), e \in AllEntries, bad \in BadSets :
            Contains(update_for_tree(node, <<>>, <<e>>, bad).node, node))
    /\ [][ /\ Contains(root_dir', root_dir)
           /\ CountsNotLess(ReportOf(root_dir'), ReportOf(root_dir)) ]_vars

\* after r1 and r3, the fold of r4 was aborted at a/a: a/ has a second seen
\* id and a new subdirectory, and what r1 and r3 recorded is kept
C11_Witness ==
    /\ pc = "failed"
    /\ n = 2
    /\ walk = <<"r1", "r3", "r4">>
    /\ FailedResolves(log) # {}
    /\ root_dir.dirs[Name_a].hashes = {"t1", "t3"}
    /\ root_dir.dirs[Name_a].files[Name_b] = {"x"}
    /\ DOMAIN root_dir.dirs[Name_a].dirs = {Name_a}
    /\ DOMAIN root_dir.files = {Name_a, Name_a_b}

----------------------------------------------------------------------------
(* C12 *)

\* the places of the log at which a commit begins
CommitsBegun == {i \in DOMAIN log : log[i].ev = "commit"}

\* the <<name, id>> of the top-level entries visited in the fold that begins
\* at place i of the log, in order
TopLevelVisits(i) ==
    LET next == {j \in CommitsBegun : j > i}
        end == IF next = {} THEN Len(log) + 1
               ELSE CHOOSE j \in next : \A k \in next : j <= k
        evs == SelectSeq(SubSeq(log, i + 1, end - 1),
                         LAMBDA e : e.ev = "entry" /\ e.path = <<>>)
    IN  [k \in DOMAIN evs |-> <<evs[k].name, evs[k].id>>]

\* the <<name, id>> of the entries of a tree, in order
EntriesOf(tree) ==
    [k \in DOMAIN Objects[tree] |-> <<Objects[tree][k].name, Objects[tree][k].id>>]

\* C12: the seen set of the root stays empty, and every fold that returned
\* Ok visited each top-level entry of its commit's root tree once, in order,
\* also when an earlier commit had the same root tree; the commits folded
\* are the first n of the walk, one fold each.
C12_RootNeverGated ==
    /\ root_dir.hashes = {}
    /\ \A i \in CommitsBegun :
          log[i].ok => TopLevelVisits(i) = EntriesOf(log[i].id)
    /\ Cardinality({i \in CommitsBegun : log[i].ok}) = n
    /\ \A k \in 1..n :
          \E i \in CommitsBegun :
              /\ log[i].ok
              /\ log[i].id = walk[k]
              /\ Cardinality({j \in CommitsBegun : j <= i}) = k

\* r3 was folded three times running: its three top-level entries were
\* visited nine times, and its subtree-free root was never marked seen
C12_Witness ==
    /\ pc = "walk"
    /\ n = 3
    /\ walk = <<"r3", "r3", "r3">>
    /\ Cardinality({i \in DOMAIN log : log[i].ev = "entry" /\ log[i].path = <<>>}) = 9

----------------------------------------------------------------------------
(* C13 *)

\* the directories of the cache below `node`: the names from the root
RECURSIVE DirsOf(_, _)
DirsOf(node, dir) ==
    UNION {{Append(dir, d)} \cup DirsOf(node.dirs[d], Append(dir, d)) :
              d \in DOMAIN node.dirs}

\* the paths of the rows
RowPaths(rows) == {rows[i][1] : i \in DOMAIN rows}

\* C13: whatever the iteration order, get_all_files emits as many rows as
\* files are recorded in the cache, each with the path and version count of
\* a recorded file; a directory's path is a row only where the parent node
\* also records a file of that name, and a node without files adds no row of
\* its own.  The same holds of the printed report.
C13_RowsAreFilesOnly ==
    pc = "done" =>
        LET files == FilesOf(root_dir, <<>>)
            RowsOk(rows) ==
                /\ Len(rows) = Cardinality(files)
                /\ Range(rows) =
                      {<<PathStr(Append(df[1], df[2])),
                         Cardinality(NodeAt(root_dir, df[1]).files[df[2]])>> : df \in files}
                /\ \A d \in DirsOf(root_dir, <<>>) :
                      PathStr(d) \in RowPaths(rows) =>
                          d[Len(d)] \in DOMAIN NodeAt(root_dir, SubSeq(d, 1, Len(d) - 1)).files
        IN  /\ \A ordF \in Orders, ordD \in Orders :
                  RowsOk(get_all_files(root_dir, <<>>, ordF, ordD))
            /\ RowsOk(printed)

\* the report of r5 and r3: a/ records no file and adds no row of its own;
\* a/ and a/b/ are directories, of which a is also a file of the root and so
\* a row, and a/b is not
C13_Witness ==
    /\ pc = "done"
    /\ walk = <<"r5", "r3">>
    /\ NodeAt(root_dir, <<Name_a>>).files = EmptyMap
    /\ DirsOf(root_dir, <<>>) = {<<Name_a>>, <<Name_a, Name_b>>}
    /\ RowPaths(printed) = {Name_a, Name_a_b, PathStr(<<Name_a, Name_b, Name_b>>)}

----------------------------------------------------------------------------
(* C14 *)

\* the entries that are neither a directory nor a file
OtherEntries == {e \in AllEntries : e.kind \notin {"tree", "blob"}}

OtherIds == {e.id : e \in OtherEntries}

\* the entry lists that may follow an entry in a tree
EntryLists == {<<>>} \cup {Objects[t] : t \in DOMAIN Objects}

\* C14: at every node of the cache, folding an entry of another kind and
\* then any entries gives the node, the result and the resolve calls that
\* folding those entries alone gives, after the one visit of the entry; no
\* node of the cache holds the id of such an entry as a seen id or as a file
\* version, and no resolve call is made for it or follows its visit.
C14_OtherKindsIgnored ==
    /\ \A node \in NodesOf(root_dir), e \in OtherEntries,
             es \in EntryLists, bad \in BadSets :
          LET with == update_for_tree(node, <<>>, <<e>> \o es, bad)
              without == update_for_tree(node, <<>>, es, bad)
          IN  /\ with.node = without.node
              /\ with.ok = without.ok
              /\ with.log = <<Event("entry", <<>>, e.name, e.id, TRUE)>> \o without.log
    /\ \A node \in NodesOf(root_dir) :
          /\ node.hashes \cap OtherIds = {}
          /\ \A f \in DOMAIN node.files : node.files[f] \cap OtherIds = {}
    /\ \A i \in DOMAIN log :
          /\ log[i].ev = "resolve" => log[i].id \notin OtherIds
          /\ (log[i].ev = "entry" /\ log[i].id \in OtherIds /\ i < Len(log))
                => log[i + 1].ev # "resolve"

\* r3 and r4 were folded: the submodule b of the root left no file and no
\* directory b until r4 brought the directory, and in a/ the visit of the
\* submodule a.b was followed by the visit of the file b, which is recorded
C14_Witness ==
    /\ pc = "walk"
    /\ n = 2
    /\ walk = <<"r3", "r4">>
    /\ Name_b \notin DOMAIN root_dir.files
    /\ DOMAIN root_dir.dirs[Name_a].files = {Name_b}
    /\ root_dir.dirs[Name_a].files[Name_b] = {"z"}
    /\ Name_a_b \notin DOMAIN root_dir.dirs[Name_a].dirs
    /\ \E i \in DOMAIN log :
          /\ i < Len(log)
          /\ log[i] = Event("entry", <<Name_a>>, Name_a_b, "s", TRUE)
          /\ log[i + 1] = Event("entry", <<Name_a>>, Name_b, "z", TRUE)

----------------------------------------------------------------------------
(* C15 *)

\* C15: in every state, aborted folds included, every file of every node of
\* the cache has at least one version and every subdirectory node has at
\* least one seen tree id; so every row that get_all_files gives, and every
\* printed row, has a count of at least 1.
C15_NoEmptySets ==
    /\ \A node \in NodesOf(root_dir) :
          /\ \A f \in DOMAIN node.files : node.files[f] # {}
          /\ \A d \in DOMAIN node.dirs : node.dirs[d].hashes # {}
    /\ \A r \in Range(get_all_files(root_dir, <<>>, SomeOrder, SomeOrder))
                   \cup Range(printed) : r[2] >= 1

\* after r3, the fold of r4 was aborted at a/a: the node a/a was created
\* with the one tree id whose resolve failed and nothing else, and the files
\* of r3 are reported
C15_Witness ==
    /\ pc = "failed"
    /\ n = 1
    /\ walk = <<"r3", "r4">>
    /\ <<Name_a, Name_a>> \in DirsOf(root_dir, <<>>)
    /\ NodeAt(root_dir, <<Name_a, Name_a>>) =
          [hashes |-> {"t1"}, files |-> EmptyMap, dirs |-> EmptyMap]
    /\ Range(get_all_files(root_dir, <<>>, SomeOrder, SomeOrder))
          = {<<Name_a, 1>>, <<Name_a_b, 1>>}

====
